---- MODULE Spec2Model ----
(***************************************************************************)
(* Model of the Simple File System protocol binding                        *)
(* (src/proto/sfs/mod.rs): the File wrapper and SimpleFileSystem, calling  *)
(* through the firmware's function-pointer tables.  The binding is         *)
(* translated from the source; the firmware behind the tables, the UCS-2   *)
(* encoder and the Status -> Result conversion live outside this file and  *)
(* are modelled from their documented contracts.                           *)
(*                                                                         *)
(* Encodings: a u64 bit-set is the set of its set bit indices; a string    *)
(* (of characters or of 16-bit units) is held run-length encoded, as the   *)
(* sequence of its maximal runs [n |-> count, c |-> code] of equal         *)
(* elements; the u64 0xFFFFFFFFFFFFFFFF is held by its two's-complement    *)
(* reading.                                                                *)
(***************************************************************************)
EXTENDS Integers, Sequences, FiniteSets, TLC

\* ------------------------------------------------------------------ bounds
MaxHandles == 2      \* firmware handle records that can be allocated
MaxFileLen == 2      \* longest file content the store holds
MaxNameLen == 257    \* longest filename (in characters) offered to open
MaxFiles == 2        \* files the volume can hold

\* --------------------------------------------------------- program constants
BUF_SIZE == 255
U64_MAX == -1

READ == {0}
WRITE == {1}
CREATE == {63}

NONE == {}
READ_ONLY == {0}

\* ------------------------------------------------------------------ inputs
Min(a, b) == IF a < b THEN a ELSE b

\* 'a' (1 byte in UTF-8), U+00E9 (2 bytes), U+20AC (3 bytes),
\* U+1F600 (4 bytes, outside the Basic Multilingual Plane)
Chars == {97, 233, 8364, 128512}

Rep(n, c) == <<[n |-> n, c |-> c]>>

\* lengths around every place where a character count or a byte count of a
\* one-, two-, three- or four-byte alphabet crosses BUF_SIZE
NameLens == {1, MaxNameLen} \cup UNION {{BUF_SIZE \div w, BUF_SIZE \div w + 1} : w \in 1..4}

\* n two-byte characters, then one-byte characters up to BUF_SIZE bytes or one more
MixedNames ==
    UNION {{Rep(n, 233) \o Rep(BUF_SIZE - 2 * n, 97), Rep(n, 233) \o Rep(BUF_SIZE - 2 * n + 1, 97)} :
              n \in {1, 100}}

BoundaryNames == {Rep(n, c) : n \in NameLens, c \in Chars} \cup MixedNames
ShortNames == {Rep(1, 97), Rep(1, 98)}

Modes == {UNION S : S \in SUBSET {READ, WRITE, CREATE}}
Attrs == {NONE, READ_ONLY}
Bytes == {1, 2}
Datas == UNION {[1..n -> Bytes] : n \in 0..MaxFileLen}
Positions == 0..(MaxFileLen + 1) \cup {U64_MAX}
Faults == {"Success", "DeviceError"}

\* ------------------------------------------------- Status / Result (external)
Ok(v) == [ok |-> TRUE, status |-> "Success", value |-> v]
Err(s) == [ok |-> FALSE, status |-> s, value |-> 0]

\* Status::into_with: Success carries the value, every other status is the error
into_with(status, v) == IF status = "Success" THEN Ok(v) ELSE Err(status)

\* Status::into for Result<()>
into(status) == into_with(status, 0)

\* ------------------------------------------- strings and ucs2 (external)
\* str::len(): the length of the string in UTF-8 bytes
Utf8Width(c) == IF c < 128 THEN 1 ELSE IF c < 2048 THEN 2 ELSE IF c < 65536 THEN 3 ELSE 4

RECURSIVE Utf8Len(_)
Utf8Len(s) ==
    IF s = <<>> THEN 0 ELSE Head(s).n * Utf8Width(Head(s).c) + Utf8Len(Tail(s))

\* the number of elements of a string
RECURSIVE Count(_)
Count(s) == IF s = <<>> THEN 0 ELSE Head(s).n + Count(Tail(s))

\* element i (from 1) of a string, 0 past its end
RECURSIVE At(_, _)
At(s, i) ==
    IF s = <<>> THEN 0 ELSE IF i <= Head(s).n THEN Head(s).c ELSE At(Tail(s), i - Head(s).n)

\* A zero-initialised [u16; size] is held as the units written to its front
\* and its size; every element past the written units is 0.
Elem(buffer, i) == At(buffer.units, i)

\* encode_ucs2(input, buffer): one 16-bit unit per character into the front of
\* the buffer; a character outside the BMP or a full buffer is an error.
encode_ucs2(input, buffer) ==
    IF \E i \in 1..Len(input) : input[i].c >= 65536
      THEN [status |-> "Unsupported", buffer |-> buffer]
    ELSE IF Count(input) > buffer.size
      THEN [status |-> "BufferTooSmall", buffer |-> buffer]
    ELSE [status |-> "Success", buffer |-> [buffer EXCEPT !.units = input]]

\* ------------------------------------------------------------ state
VARIABLES
    live,       \* the File values the caller holds, as the chain of &mut borrows:
                \* each was produced by the one before it, the last is usable
    fwHandles,  \* firmware: the FileImpl records it has handed out
    store,      \* firmware: the files of the volume, wide name -> content
    last        \* the operation the caller performed last, with what it returned

vars == <<live, fwHandles, store, last>>

Handles == 1..MaxHandles

\* ------------------------------------------------- firmware (external)
ValidModes == {READ, READ \cup WRITE, READ \cup WRITE \cup CREATE}

FreeHandle == [state |-> "free", path |-> <<>>, pos |-> 0, dir |-> FALSE, writable |-> FALSE]

IsOpen(H, h) == h \in Handles /\ H[h].state = "open"

FreeIds(H) == {h \in Handles : H[h].state = "free"}

NewId(H) == CHOOSE h \in FreeIds(H) : \A g \in FreeIds(H) : h <= g

\* the name firmware reads from a filename pointer: the units before the first 0
WStr(buf) ==
    LET n == CHOOSE i \in 1..(Len(buf.units) + 1) :
                 /\ i = Len(buf.units) + 1 \/ buf.units[i].c = 0
                 /\ \A j \in 1..(i - 1) : buf.units[j].c # 0
    IN  SubSeq(buf.units, 1, n - 1)

\* what a firmware entry point gives back: its status, the firmware state it
\* leaves, and its output parameters
FwOut(status, H, S) ==
    [status |-> status, handles |-> H, store |-> S, new_handle |-> 0,
     buffer_size |-> 0, data |-> <<>>, position |-> 0]

Exists(S, H, h) == H[h].dir \/ H[h].path \in DOMAIN S

fw_open_volume(H, S, fault) ==
    IF fault # "Success" THEN FwOut(fault, H, S)
    ELSE IF FreeIds(H) = {} THEN FwOut("OutOfResources", H, S)
    ELSE [FwOut("Success",
                [H EXCEPT ![NewId(H)] = [FreeHandle EXCEPT !.state = "open", !.dir = TRUE,
                                                            !.writable = TRUE]],
                S)
          EXCEPT !.new_handle = NewId(H)]

fw_open(H, S, this, filename, open_mode, attributes, fault) ==
    LET name == WStr(filename)
        opened(S2) ==
            [FwOut("Success",
                   [H EXCEPT ![NewId(H)] = [FreeHandle EXCEPT !.state = "open", !.path = name,
                                                               !.writable = WRITE \subseteq open_mode]],
                   S2)
             EXCEPT !.new_handle = NewId(H)]
    IN  IF fault # "Success" THEN FwOut(fault, H, S)
        ELSE IF ~IsOpen(H, this) \/ open_mode \notin ValidModes THEN FwOut("InvalidParameter", H, S)
        ELSE IF name \in DOMAIN S
          THEN IF FreeIds(H) = {} THEN FwOut("OutOfResources", H, S) ELSE opened(S)
        ELSE IF ~(CREATE \subseteq open_mode) \/ name = <<>> THEN FwOut("NotFound", H, S)
        ELSE IF Cardinality(DOMAIN S) >= MaxFiles THEN FwOut("VolumeFull", H, S)
        ELSE IF FreeIds(H) = {} THEN FwOut("OutOfResources", H, S)
        ELSE opened([p \in DOMAIN S \cup {name} |-> IF p = name THEN <<>> ELSE S[p]])

fw_close(H, S, this, fault) ==
    IF ~IsOpen(H, this) THEN FwOut("InvalidParameter", H, S)
    ELSE FwOut(fault, [H EXCEPT ![this] = [FreeHandle EXCEPT !.state = "closed"]], S)

fw_delete(H, S, this, fault) ==
    IF ~IsOpen(H, this) THEN FwOut("InvalidParameter", H, S)
    ELSE IF fault # "Success" \/ H[this].dir \/ H[this].path \notin DOMAIN S
      THEN FwOut("WarnDeleteFailure", [H EXCEPT ![this] = [FreeHandle EXCEPT !.state = "deleted"]], S)
    ELSE FwOut("Success", [H EXCEPT ![this] = [FreeHandle EXCEPT !.state = "deleted"]],
               [p \in DOMAIN S \ {H[this].path} |-> S[p]])

fw_read(H, S, this, buffer_size) ==
    IF ~IsOpen(H, this) THEN FwOut("InvalidParameter", H, S)
    ELSE IF ~Exists(S, H, this) THEN FwOut("DeviceError", H, S)
    ELSE IF H[this].dir THEN FwOut("Unsupported", H, S)
    ELSE LET content == S[H[this].path]
             pos == H[this].pos
             n == Min(buffer_size, Len(content) - pos)
         IN  [FwOut("Success", [H EXCEPT ![this].pos = pos + n], S)
              EXCEPT !.buffer_size = n, !.data = SubSeq(content, pos + 1, pos + n)]

fw_write(H, S, this, buffer_size, buffer) ==
    IF ~IsOpen(H, this) THEN FwOut("InvalidParameter", H, S)
    ELSE IF ~Exists(S, H, this) THEN FwOut("DeviceError", H, S)
    ELSE IF H[this].dir THEN FwOut("Unsupported", H, S)
    ELSE IF ~H[this].writable THEN FwOut("AccessDenied", H, S)
    ELSE LET content == S[H[this].path]
             pos == H[this].pos
             end == pos + buffer_size
             newlen == IF end > Len(content) THEN end ELSE Len(content)
             written == [i \in 1..newlen |->
                            IF i > pos /\ i <= end THEN buffer[i - pos] ELSE content[i]]
         IN  [FwOut("Success", [H EXCEPT ![this].pos = end],
                    [S EXCEPT ![H[this].path] = written])
              EXCEPT !.buffer_size = buffer_size]

fw_get_position(H, S, this) ==
    IF ~IsOpen(H, this) THEN FwOut("InvalidParameter", H, S)
    ELSE IF ~Exists(S, H, this) THEN FwOut("DeviceError", H, S)
    ELSE IF H[this].dir THEN FwOut("Unsupported", H, S)
    ELSE [FwOut("Success", H, S) EXCEPT !.position = H[this].pos]

fw_set_position(H, S, this, position) ==
    IF ~IsOpen(H, this) THEN FwOut("InvalidParameter", H, S)
    ELSE IF ~Exists(S, H, this) THEN FwOut("DeviceError", H, S)
    ELSE IF H[this].dir THEN FwOut("Unsupported", H, S)
    ELSE IF position = U64_MAX
      THEN FwOut("Success", [H EXCEPT ![this].pos = Len(S[H[this].path])], S)
    ELSE IF position > Len(S[H[this].path]) THEN FwOut("Unsupported", H, S)
    ELSE FwOut("Success", [H EXCEPT ![this].pos = position], S)

fw_flush(H, S, this) ==
    IF ~IsOpen(H, this) THEN FwOut("InvalidParameter", H, S)
    ELSE IF ~Exists(S, H, this) THEN FwOut("DeviceError", H, S)
    ELSE IF ~H[this].writable THEN FwOut("AccessDenied", H, S)
    ELSE FwOut("Success", H, S)

\* ------------------------------------------------------------ the binding
NoCall == [fn |-> "none", this |-> 0, filename |-> [units |-> <<>>, size |-> 0], open_mode |-> {}, attributes |-> {},
           buffer_size |-> 0, buffer |-> <<>>, position |-> 0]

NoCtx == [kind |-> "none", data |-> <<>>, at |-> 0, fwpos |-> 0]

\* the record of one operation of the caller; every action fills in its own fields
Op(name, h) ==
    [op |-> name, h |-> h, filename |-> <<>>, open_mode |-> {}, attributes |-> {},
     position |-> 0, cap |-> 0, buffer |-> <<>>, fault |-> "Success", stage |-> "",
     called |-> FALSE, fw |-> NoCall, fwstatus |-> "Success", fwcount |-> 0,
     result |-> Ok(0), pos_before |-> 0, ctx |-> NoCtx]

Self == live[Len(live)]

PosOf(h) == IF h \in Handles THEN fwHandles[h].pos ELSE 0

\* self.inner.open etc. are reached through a File the caller still holds and
\* that no younger File borrows
Usable == live # <<>>

\* faulty variant: close and delete borrow the File (&mut self) and leave it with the caller
Consume_borrowed(files) == files

\* `self` taken by value: the File is gone after the call
Consume(files) == SubSeq(files, 1, Len(files) - 1)

\* faulty variant: the output slot is wrapped whatever the status
Wrapped_always(status, ptr) == <<ptr>>

\* into_with(|| File { inner: ptr }): a File exists only when the closure runs
Wrapped(status, ptr) == IF status = "Success" THEN <<ptr>> ELSE <<>>

\* faulty variant: the length check is off by one
NameTooLong_offByOne(filename) == Utf8Len(filename) > BUF_SIZE + 1

\* const BUF_SIZE; if filename.len() > BUF_SIZE
NameTooLong(filename) == Utf8Len(filename) > BUF_SIZE

\* faulty variant: the buffer has no room for the terminator
BufLen_noTerminator == BUF_SIZE

\* let mut buf = [0u16; BUF_SIZE+1]
BufLen == BUF_SIZE + 1

ZeroBuf == [units |-> <<>>, size |-> BufLen]

\* faulty variant: the binding strips CREATE from the mode and READ_ONLY from the attributes
OpenArgs_filtered(this, buf, open_mode, attributes) ==
    [NoCall EXCEPT !.fn = "open", !.this = this, !.filename = buf,
                   !.open_mode = open_mode \ CREATE, !.attributes = attributes \ {0}]

\* the arguments File::open hands to (self.inner.open)
OpenArgs(this, buf, open_mode, attributes) ==
    [NoCall EXCEPT !.fn = "open", !.this = this, !.filename = buf, !.open_mode = open_mode,
                   !.attributes = attributes]

\* faulty variant: the result of encode_ucs2 is dropped instead of propagated with `?`
OpenPlan_ignoreEncodeError(filename) ==
    IF NameTooLong(filename)
      THEN [stage |-> "length", status |-> "InvalidParameter", buf |-> ZeroBuf]
    ELSE [stage |-> "firmware", status |-> "Success",
          buf |-> encode_ucs2(filename, ZeroBuf).buffer]

\* the local part of File::open: the length check, then encode_ucs2(..)?
OpenPlan(filename) ==
    IF NameTooLong(filename)
      THEN [stage |-> "length", status |-> "InvalidParameter", buf |-> ZeroBuf]
    ELSE LET e == encode_ucs2(filename, ZeroBuf)
         IN  IF e.status # "Success"
               THEN [stage |-> "encode", status |-> e.status, buf |-> e.buffer]
             ELSE [stage |-> "firmware", status |-> "Success", buf |-> e.buffer]

\* let mut buffer_size = buffer.len()
BufferSize(buffer) == Len(buffer)

\* faulty variant: the length of the caller's buffer is returned, not what firmware reported
CountResult_bufferLen(status, buffer_size, buffer) == into_with(status, Len(buffer))

\* .into_with(|| buffer_size): the size as firmware left it
CountResult(status, buffer_size, buffer) == into_with(status, buffer_size)

\* faulty variant: get_position returns its local `pos` as initialised, not as firmware set it
PositionResult_initial(status, pos) == into_with(status, 0)

\* let mut pos = 0u64; ... .into_with(|| pos)
PositionResult(status, pos) == into_with(status, pos)

\* faulty variant: the position is off by one (wrapping in 64 bits)
SetPositionArg_offByOne(position) == position + 1

\* the position File::set_position hands to (self.inner.set_position)
SetPositionArg(position) == position

Init ==
    /\ live = <<>>
    /\ fwHandles = [h \in Handles |-> FreeHandle]
    /\ store = (Rep(1, 97) :> <<1, 2>>)
    /\ last = Op("none", 0)

open_volume(fault) ==
    /\ live = <<>>
    /\ LET r == fw_open_volume(fwHandles, store, fault)
       IN  /\ live' = live \o Wrapped(r.status, r.new_handle)
           /\ fwHandles' = r.handles
           /\ store' = r.store
           /\ last' = [Op("open_volume", 0) EXCEPT
                         !.fault = fault, !.called = TRUE,
                         !.fw = [NoCall EXCEPT !.fn = "open_volume"],
                         !.fwstatus = r.status,
                         !.result = into_with(r.status, r.new_handle)]

File_open(filename, open_mode, attributes, fault) ==
    /\ Usable
    /\ LET plan == OpenPlan(filename)
           args == OpenArgs(Self, plan.buf, open_mode, attributes)
           r == fw_open(fwHandles, store, args.this, args.filename, args.open_mode,
                        args.attributes, fault)
           rec == [Op("open", Self) EXCEPT !.filename = filename, !.open_mode = open_mode,
                                           !.attributes = attributes, !.stage = plan.stage]
       IN  IF plan.stage # "firmware"
             THEN /\ last' = [rec EXCEPT !.result = Err(plan.status)]
                  /\ UNCHANGED <<live, fwHandles, store>>
           ELSE /\ live' = live \o Wrapped(r.status, r.new_handle)
                /\ fwHandles' = r.handles
                /\ store' = r.store
                     /\ last' = [rec EXCEPT !.fault = fault, !.called = TRUE, !.fw = args,
                                       !.fwstatus = r.status,
                                       !.result = into_with(r.status, r.new_handle)]

File_close(fault) ==
    /\ Usable
    /\ LET r == fw_close(fwHandles, store, Self, fault)
       IN  /\ live' = Consume(live)
           /\ fwHandles' = r.handles
           /\ store' = r.store
           /\ last' = [Op("close", Self) EXCEPT
                         !.fault = fault, !.called = TRUE,
                         !.fw = [NoCall EXCEPT !.fn = "close", !.this = Self],
                         !.fwstatus = r.status, !.result = into(r.status)]

File_delete(fault) ==
    /\ Usable
    /\ LET r == fw_delete(fwHandles, store, Self, fault)
       IN  /\ live' = Consume(live)
           /\ fwHandles' = r.handles
           /\ store' = r.store
           /\ last' = [Op("delete", Self) EXCEPT
                         !.fault = fault, !.called = TRUE,
                         !.fw = [NoCall EXCEPT !.fn = "delete", !.this = Self],
                         !.fwstatus = r.status, !.result = into(r.status)]

File_read(cap) ==
    /\ Usable
    /\ LET buffer == [i \in 1..cap |-> 0]
           r == fw_read(fwHandles, store, Self, BufferSize(buffer))
           filled == [i \in 1..cap |-> IF i <= Len(r.data) THEN r.data[i] ELSE buffer[i]]
       IN  /\ fwHandles' = r.handles
           /\ store' = r.store
           /\ last' = [Op("read", Self) EXCEPT
                         !.cap = cap, !.buffer = filled, !.called = TRUE,
                         !.fw = [NoCall EXCEPT !.fn = "read", !.this = Self,
                                               !.buffer_size = BufferSize(buffer)],
                         !.fwstatus = r.status, !.fwcount = r.buffer_size,
                         !.result = CountResult(r.status, r.buffer_size, buffer),
                         !.pos_before = PosOf(Self),
                         !.ctx = IF last.op = "set_position" /\ last.h = Self
                                    /\ last.ctx.kind = "rewound"
                                   THEN [last.ctx EXCEPT !.kind = "roundtrip"]
                                 ELSE NoCtx]
           /\ UNCHANGED live

File_write(buffer) ==
    /\ Usable
    /\ PosOf(Self) + Len(buffer) <= MaxFileLen
    /\ LET r == fw_write(fwHandles, store, Self, BufferSize(buffer), buffer)
       IN  /\ fwHandles' = r.handles
           /\ store' = r.store
           /\ last' = [Op("write", Self) EXCEPT
                         !.buffer = buffer, !.called = TRUE,
                         !.fw = [NoCall EXCEPT !.fn = "write", !.this = Self,
                                               !.buffer_size = BufferSize(buffer),
                                               !.buffer = buffer],
                         !.fwstatus = r.status, !.fwcount = r.buffer_size,
                         !.result = CountResult(r.status, r.buffer_size, buffer),
                         !.pos_before = PosOf(Self),
                         !.ctx = IF r.status = "Success"
                                   THEN [NoCtx EXCEPT !.kind = "written", !.data = buffer,
                                                      !.at = PosOf(Self)]
                                 ELSE NoCtx]
           /\ UNCHANGED live

File_get_position ==
    /\ Usable
    /\ LET r == fw_get_position(fwHandles, store, Self)
       IN  /\ fwHandles' = r.handles
           /\ store' = r.store
           /\ last' = [Op("get_position", Self) EXCEPT
                         !.called = TRUE,
                         !.fw = [NoCall EXCEPT !.fn = "get_position", !.this = Self],
                         !.fwstatus = r.status,
                         !.result = PositionResult(r.status, r.position),
                         !.pos_before = PosOf(Self),
                         !.ctx = IF last.op = "set_position" /\ last.h = Self
                                    /\ last.position = U64_MAX /\ last.result.ok
                                   THEN [NoCtx EXCEPT !.kind = "seekend",
                                                      !.fwpos = last.fw.position]
                                 ELSE NoCtx]
           /\ UNCHANGED live

File_set_position(position) ==
    /\ Usable
    /\ LET r == fw_set_position(fwHandles, store, Self, SetPositionArg(position))
       IN  /\ fwHandles' = r.handles
           /\ store' = r.store
           /\ last' = [Op("set_position", Self) EXCEPT
                         !.position = position, !.called = TRUE,
                         !.fw = [NoCall EXCEPT !.fn = "set_position", !.this = Self,
                                               !.position = SetPositionArg(position)],
                         !.fwstatus = r.status, !.result = into(r.status),
                         !.pos_before = PosOf(Self),
                         !.ctx = IF r.status = "Success" /\ position = 0
                                    /\ last.op = "write" /\ last.h = Self
                                    /\ last.ctx.kind = "written"
                                   THEN [last.ctx EXCEPT !.kind = "rewound"]
                                 ELSE NoCtx]
           /\ UNCHANGED live

File_flush ==
    /\ Usable
    /\ LET r == fw_flush(fwHandles, store, Self)
       IN  /\ fwHandles' = r.handles
           /\ store' = r.store
           /\ last' = [Op("flush", Self) EXCEPT
                         !.called = TRUE,
                         !.fw = [NoCall EXCEPT !.fn = "flush", !.this = Self],
                         !.fwstatus = r.status, !.result = into(r.status)]
           /\ UNCHANGED live

\* the whole interface, on short filenames opened in the three legal modes
Next ==
    \/ \E fault \in Faults : open_volume(fault)
    \/ \E open_mode \in ValidModes : File_open(Rep(1, 97), open_mode, NONE, "Success")
    \/ \E fault \in Faults : File_close(fault)
    \/ \E fault \in Faults : File_delete(fault)
    \/ \E cap \in 0..MaxFileLen : File_read(cap)
    \/ \E buffer \in Datas : File_write(buffer)
    \/ File_get_position
    \/ \E position \in Positions : File_set_position(position)
    \/ File_flush

Spec == Init /\ [][Next]_vars

\* opening and closing, with every combination of mode bits, on a device that may fail
NextModes ==
    \/ \E fault \in Faults : open_volume(fault)
    \/ \E filename \in ShortNames, open_mode \in Modes, attributes \in Attrs, fault \in Faults :
          File_open(filename, open_mode, attributes, fault)
    \/ \E fault \in Faults : File_close(fault)
    \/ \E fault \in Faults : File_delete(fault)

SpecModes == Init /\ [][NextModes]_vars

\* opening and closing, with filenames around the length limit
NextOpen ==
    \/ open_volume("Success")
    \/ \E filename \in BoundaryNames : File_open(filename, READ, NONE, "Success")
    \/ File_close("Success")

SpecOpen == Init /\ [][NextOpen]_vars

\* ------------------------------------------------------------ properties
IsOpenOp == last.op = "open"

EncodeStatus(filename) == encode_ucs2(filename, [units |-> <<>>, size |-> BUF_SIZE + 1]).status

RWC == READ \cup WRITE \cup CREATE

\* C1: a filename of more than 255 characters makes File::open return
\* Err(InvalidParameter) without any call through the firmware open pointer.
C1_LongNameRejected ==
    (IsOpenOp /\ Count(last.filename) > BUF_SIZE)
        => (last.result = Err("InvalidParameter") /\ ~last.called /\ last.fw = NoCall)

C1_Witness ==
    IsOpenOp /\ Count(last.filename) = BUF_SIZE + 1 /\ last.result = Err("InvalidParameter")

\* C2: once close or delete has been called on a handle, whatever status it
\* returned, the handle's record never changes again, no later call through a
\* firmware pointer has it as `this`, and the caller holds no File for it.
C2_ConsumedIsTerminal ==
    [][\A h \in Handles :
          fwHandles[h].state \in {"closed", "deleted"}
              => /\ fwHandles'[h] = fwHandles[h]
                 /\ ~(last'.called /\ last'.fw.this = h)
                 /\ \A i \in 1..Len(live') : live'[i] # h]_vars

C2_Witness ==
    /\ \E h \in Handles : fwHandles[h].state = "deleted"
    /\ last.called /\ last.op = "flush"

\* C3: when the firmware open or open_volume entry point returns a status other
\* than Success, the caller gets that status as the error and no File: the
\* Files it holds are the ones it held before.
C3_FailedOpenNoHandle ==
    [][(last'.op \in {"open", "open_volume"} /\ last'.called /\ last'.fwstatus # "Success")
          => (last'.result = Err(last'.fwstatus) /\ live' = live)]_vars

C3_Witness ==
    /\ IsOpenOp /\ last.called /\ last.open_mode = READ
    /\ last.result = Err("NotFound")

\* C4 as stated: write(data), set_position(0), read into a buffer of the same
\* length, on one handle and each succeeding, reads back the count and the data.
C4_RoundTripAnywhere ==
    (last.op = "read" /\ last.ctx.kind = "roundtrip" /\ last.cap = Len(last.ctx.data))
        => (last.result = Ok(last.cap) /\ last.buffer = last.ctx.data)

\* C4 amended: the same, for a write that starts at position 0.
C4_RoundTripFromStart ==
    (last.op = "read" /\ last.ctx.kind = "roundtrip" /\ last.cap = Len(last.ctx.data)
        /\ last.ctx.at = 0)
        => (last.result = Ok(last.cap) /\ last.buffer = last.ctx.data)

C4_Witness ==
    /\ last.op = "read" /\ last.ctx.kind = "roundtrip" /\ last.ctx.at = 0
    /\ last.ctx.data = <<2, 1>> /\ last.cap = 2 /\ last.buffer = <<2, 1>>

\* C5: set_position(0xFFFFFFFFFFFFFFFF) hands that value to firmware unchanged,
\* and a get_position right after it on the same handle returns the length of
\* the file.
C5_SeekEndThenGetPosition ==
    (last.op = "get_position" /\ last.ctx.kind = "seekend")
        => /\ last.ctx.fwpos = U64_MAX
           /\ last.result = Ok(Len(store[fwHandles[last.h].path]))

C5_Witness ==
    /\ last.op = "get_position" /\ last.ctx.kind = "seekend"
    /\ last.result.ok /\ last.result.value = MaxFileLen

\* C6: a successful read returns the count firmware reported, at most the
\* capacity of the buffer, and the position advances by that count; a read of a
\* file at its end returns Ok(0) and leaves the position.
C6_ReadCount ==
    /\ (last.op = "read" /\ last.result.ok)
          => /\ last.result.value = last.fwcount
             /\ last.result.value <= last.cap
             /\ PosOf(last.h) = last.pos_before + last.result.value
    /\ (last.op = "read" /\ ~fwHandles[last.h].dir
           /\ fwHandles[last.h].path \in DOMAIN store
           /\ last.pos_before = Len(store[fwHandles[last.h].path]))
          => (last.result = Ok(0) /\ PosOf(last.h) = last.pos_before)

C6_Witness ==
    /\ last.op = "read" /\ last.cap > 0 /\ last.result = Ok(0)
    /\ last.pos_before = MaxFileLen

\* C7: when File::open fails locally (the filename is oversized, or encode_ucs2
\* fails, whose error is then the result), nothing is called through a firmware
\* pointer and the firmware's state is as before.
C7_LocalErrorsBeforeFirmware ==
    [][(last'.op = "open"
          /\ (Utf8Len(last'.filename) > BUF_SIZE \/ EncodeStatus(last'.filename) # "Success"))
          => /\ last'.result = Err(IF Utf8Len(last'.filename) > BUF_SIZE
                                     THEN "InvalidParameter"
                                   ELSE EncodeStatus(last'.filename))
             /\ ~last'.called
             /\ fwHandles' = fwHandles /\ store' = store /\ live' = live]_vars

C7_Witness ==
    /\ IsOpenOp /\ Utf8Len(last.filename) <= BUF_SIZE
    /\ last.result = Err("Unsupported") /\ ~last.called

\* C8: firmware receives the mode and the attributes exactly as the caller gave
\* them; an open in a mode other than READ, READ|WRITE, READ|WRITE|CREATE fails
\* with the status firmware returned; an open in one of those modes succeeds
\* unless the device fails, the file is absent and CREATE is not set, or the
\* firmware has no handle record left.
C8_ModesDecidedByFirmware ==
    (IsOpenOp /\ last.stage = "firmware")
        => /\ last.called
           /\ last.fw.open_mode = last.open_mode
           /\ last.fw.attributes = last.attributes
           /\ last.open_mode \notin {READ, READ \cup WRITE, RWC}
                 => (~last.result.ok /\ last.result = Err(last.fwstatus)
                     /\ (last.fault = "Success" => last.fwstatus = "InvalidParameter"))
           /\ (last.open_mode \in {READ, READ \cup WRITE, RWC} /\ ~last.result.ok)
                 => \/ last.fault # "Success"
                    \/ /\ last.fwstatus = "NotFound"
                       /\ ~(CREATE \subseteq last.open_mode)
                       /\ WStr(last.fw.filename) \notin DOMAIN store
                    \/ last.fwstatus = "OutOfResources" /\ FreeIds(fwHandles) = {}

C8_Witness ==
    /\ IsOpenOp /\ last.result.ok /\ last.open_mode = RWC /\ last.attributes = READ_ONLY
    /\ last.fw.open_mode = RWC /\ last.fw.attributes = READ_ONLY

\* C9 as stated: a filename of at most 255 characters is never rejected by the
\* length check of File::open.
C9_ShortNamePassesLengthCheck ==
    (IsOpenOp /\ Count(last.filename) <= BUF_SIZE) => last.stage # "length"

\* C10: the filename buffer handed to the firmware open pointer has 256
\* elements, at most the first 255 of them written, and its last element is 0.
C10_BufferNullTerminated ==
    (IsOpenOp /\ last.called)
        => /\ last.fw.filename.size = BUF_SIZE + 1
           /\ Count(last.fw.filename.units) <= BUF_SIZE
           /\ Elem(last.fw.filename, BUF_SIZE + 1) = 0

C10_Witness ==
    IsOpenOp /\ last.called /\ Count(last.fw.filename.units) = BUF_SIZE

====
